---- MODULE Spec2Model ----
(***************************************************************************)
(* A model of cryojax's image configuration and scattering routines        *)
(* (src/src/cryojax/simulator/scattering.py) and of the voxel-grid         *)
(* properties exercised by src/tests/test_voxels_from_atoms.py.            *)
(*                                                                         *)
(* Numbers.  pad_scale is a positive dyadic rational num/den (den in       *)
(* {1,2,4}); side lengths are small integers, so the float product         *)
(* s * pad_scale of the source is exact and int() is the integer quotient. *)
(* Arrays are functions from index tuples (0-based, as in the source) to   *)
(* integers.                                                               *)
(***************************************************************************)
EXTENDS Integers, Sequences, FiniteSets, TLC

VARIABLES
    cfg,    \* the configuration object, NoConfig before construction
    img,    \* the array the caller holds (an input image or a call's result)
    x0,     \* the nominal-shape input image the caller started from
    ops,    \* the operations applied since x0 / since the scattering call
    call,   \* the scattering call whose outcome img holds: arguments, stages
    cloud_density,      \* the amplitude array the caller has prepared
    cloud_coordinates,  \* the coordinate array the caller has prepared
    coordinate_grid,    \* the CoordinateGrid of the voxel builders, or NoGrid
    atoms,              \* the atoms loaded: position and element of each
    real_potential,     \* RealVoxelGridPotential.from_atoms's grid, or NoGrid
    fourier_potential,  \* FourierVoxelGridPotential.from_atoms's grid, or NoGrid
    toy,                \* the boosted toy cloud's grid and its boosted atom
    bin_density,        \* the density array prepared for project_with_binning
    bin_coords,         \* the coordinate array prepared for it
    bin_call            \* the project_with_binning call made on them, or NoCall

imagevars == <<cfg, img, x0, ops, call, cloud_density, cloud_coordinates>>
voxelvars == <<coordinate_grid, atoms, real_potential, fourier_potential, toy>>
binvars == <<bin_density, bin_coords, bin_call>>
vars == <<imagevars, voxelvars, binvars>>

\* ------------------------------------------------------------- bounds
MaxSide == 2     \* nominal side lengths are 1..MaxSide
MaxPoints == 2   \* a point cloud has at most MaxPoints points
MaxOps == 2      \* image operations applied in a row to one array
MaxGridSide == 3 \* voxel grids have 2..MaxGridSide voxels per side
MaxAtoms == 2    \* an atom set has at most MaxAtoms atoms
MaxBinPoints == 2 \* project_with_binning is given at most MaxBinPoints points
IntBits == 5     \* width of the integer type of astype(int), scaled down

NoConfig == [kind |-> "none"]
NoImage == [space |-> "none"]
NoCall == [op |-> "none"]
NoGrid == [n |-> 0]
NoToy == [largest_atom |-> -1]

\* ------------------------------------------------------------- inputs
Sides == 1..MaxSide
Shapes == Sides \X Sides
PixelSizes == {1, 2}
\* pad_scale values between 1/2 and 2, in lowest terms
PadScales ==
    {[num |-> 1, den |-> 2], [num |-> 1, den |-> 1],
     [num |-> 5, den |-> 4], [num |-> 3, den |-> 2], [num |-> 7, den |-> 4],
     [num |-> 2, den |-> 1]}
Kinds == {"ImageConfig", "NufftScattering", "GaussianScattering",
          "FourierSliceScattering"}
PadModes == {"constant", "edge"}

\* ------------------------------------------------------------- arithmetic
\* int(s * pad_scale) for s >= 0 and pad_scale = num/den > 0: truncation
IntOfProduct(s, p) == (s * p.num) \div p.den

\* round(s * pad_scale): Python's round, half to even
RoundOfProduct(s, p) ==
    LET q == (s * p.num) \div p.den
        r2 == 2 * ((s * p.num) % p.den)
    IN  IF r2 < p.den THEN q
        ELSE IF r2 > p.den THEN q + 1
        ELSE IF q % 2 = 0 THEN q ELSE q + 1

Indices(shape) == (0..(shape[1] - 1)) \X (0..(shape[2] - 1))

\* ------------------------------------------------------------- utilities
\* fftfreqs(shape, pixel_size): centred frequency indices, in units of
\* 1 / (N * pixel_size) per axis
FftFreqs(shape, pixel_size) ==
    [ij \in Indices(shape) |->
        <<[num |-> ij[1] - shape[1] \div 2, den |-> shape[1] * pixel_size],
          [num |-> ij[2] - shape[2] \div 2, den |-> shape[2] * pixel_size]>>]

\* fftfreqs(shape, pixel_size, real=True): centred real-space coordinates
RealCoords(shape, pixel_size) ==
    [ij \in Indices(shape) |->
        <<(ij[1] - shape[1] \div 2) * pixel_size,
          (ij[2] - shape[2] \div 2) * pixel_size>>]

\* offset of an n-long window centred in an m-long axis: the centre pixel
\* n \div 2 of the window sits on the centre pixel m \div 2 of the axis
CentreOffset(m, n) == m \div 2 - n \div 2

Clamp(i, lo, hi) == IF i < lo THEN lo ELSE IF i > hi THEN hi ELSE i

\* utils.crop(image, shape): the centred window of the image
crop(image, shape) ==
    LET o1 == CentreOffset(image.shape[1], shape[1])
        o2 == CentreOffset(image.shape[2], shape[2])
    IN  [space |-> image.space, shape |-> shape,
         px |-> [ij \in Indices(shape) |-> image.px[<<ij[1] + o1, ij[2] + o2>>]]]

\* utils.pad(image, shape, mode=...): the image centred in a larger array,
\* the margin filled with zeros ("constant") or the nearest pixel ("edge")
pad(image, shape, mode) ==
    LET o1 == CentreOffset(shape[1], image.shape[1])
        o2 == CentreOffset(shape[2], image.shape[2])
        In(ij) == /\ ij[1] - o1 \in 0..(image.shape[1] - 1)
                  /\ ij[2] - o2 \in 0..(image.shape[2] - 1)
    IN  [space |-> image.space, shape |-> shape,
         px |-> [ij \in Indices(shape) |->
                    IF In(ij) THEN image.px[<<ij[1] - o1, ij[2] - o2>>]
                    ELSE IF mode = "constant" THEN 0
                    ELSE image.px[<<Clamp(ij[1] - o1, 0, image.shape[1] - 1),
                                    Clamp(ij[2] - o2, 0, image.shape[2] - 1)>>]]]

Fits(inner, outer) == inner[1] <= outer[1] /\ inner[2] <= outer[2]
NonEmpty(shape) == shape[1] >= 1 /\ shape[2] >= 1

\* utils.resize(image, shape): frequency-domain truncation (to a smaller
\* shape) or zero-padding (to a larger one) of the centred spectrum
resize(image, shape) ==
    IF Fits(shape, image.shape) THEN crop(image, shape)
    ELSE pad(image, shape, "constant")

\* ------------------------------------------------------------- ImageConfig
PaddedShapeRounded(shape, pad_scale) ==
    <<RoundOfProduct(shape[1], pad_scale), RoundOfProduct(shape[2], pad_scale)>>

\* padded_shape = tuple([int(s * self.pad_scale) for s in self.shape])
PaddedShape(shape, pad_scale) ==
    <<IntOfProduct(shape[1], pad_scale), IntOfProduct(shape[2], pad_scale)>>

\* the field a subclass adds, at its default: eps, scale or order
DefaultEps == "1e-6"
DefaultScale == [num |-> 1, den |-> 3]
Orders == {0, 1}

\* __post_init__: the derived fields are set once, from the three inputs;
\* there is no check of pad_scale
PostInit(kind, shape, pixel_size, pad_scale, order) ==
    LET padded_shape == PaddedShape(shape, pad_scale)
    IN  [kind |-> kind, shape |-> shape, pixel_size |-> pixel_size,
         pad_scale |-> pad_scale, padded_shape |-> padded_shape,
         eps |-> DefaultEps, scale |-> DefaultScale, order |-> order,
         freqs |-> FftFreqs(shape, pixel_size),
         padded_freqs |-> FftFreqs(padded_shape, pixel_size),
         coords |-> RealCoords(shape, pixel_size),
         padded_coords |-> RealCoords(padded_shape, pixel_size)]

\* crop that hands the image back as it came
ImageConfig_crop_uncropped(self, image) == image

ImageConfig_crop(self, image) == crop(image, self.shape)
ImageConfig_pad(self, image, mode) == pad(image, self.padded_shape, mode)
ImageConfig_downsample(self, image) == resize(image, self.shape)
ImageConfig_upsample(self, image) == resize(image, self.padded_shape)

\* an input image at the nominal shape, every pixel different
Ramp(shape, base) ==
    [space |-> "real", shape |-> shape,
     px |-> [ij \in Indices(shape) |-> base + ij[1] * shape[2] + ij[2]]]

\* ------------------------------------------------------------- actions
\* nothing constructed, loaded or built yet
ImageIdle ==
    /\ cfg = NoConfig
    /\ img = NoImage
    /\ x0 = NoImage
    /\ ops = <<>>
    /\ call = NoCall
    /\ cloud_density = <<>>
    /\ cloud_coordinates = <<>>

VoxelIdle ==
    /\ coordinate_grid = NoGrid
    /\ atoms = <<>>
    /\ real_potential = NoGrid
    /\ fourier_potential = NoGrid
    /\ toy = NoToy

BinIdle ==
    /\ bin_density = <<>>
    /\ bin_coords = <<>>
    /\ bin_call = NoCall

Init == ImageIdle /\ VoxelIdle /\ BinIdle

Construct ==
    /\ cfg = NoConfig
    /\ \E kind \in Kinds, shape \in Shapes, ps \in PixelSizes, p \in PadScales,
          order \in Orders :
          /\ kind # "FourierSliceScattering" => order = 1
          /\ cfg' = PostInit(kind, shape, ps, p, order)
    /\ UNCHANGED <<img, x0, ops, call, cloud_density, cloud_coordinates>>
    /\ UNCHANGED <<voxelvars, binvars>>

NewImage ==
    /\ cfg # NoConfig
    /\ \E base \in {1, 10} :
          /\ img' = Ramp(cfg.shape, base)
          /\ x0' = img'
    /\ ops' = <<>>
    /\ call' = NoCall
    /\ cloud_density' = <<>>
    /\ cloud_coordinates' = <<>>
    /\ UNCHANGED cfg
    /\ UNCHANGED <<voxelvars, binvars>>

\* pad that also rebinds the configuration's shape to the padded one
Pad_rebinding_shape ==
    /\ cfg # NoConfig /\ img # NoImage /\ Len(ops) < MaxOps
    /\ Fits(img.shape, cfg.padded_shape)
    /\ \E mode \in PadModes :
          /\ img' = ImageConfig_pad(cfg, img, mode)
          /\ ops' = Append(ops, "pad")
    /\ call' = NoCall
    /\ cfg' = [cfg EXCEPT !.shape = cfg.padded_shape]
    /\ UNCHANGED <<x0, cloud_density, cloud_coordinates>>
    /\ UNCHANGED <<voxelvars, binvars>>

Pad ==
    /\ cfg # NoConfig /\ img # NoImage /\ Len(ops) < MaxOps
    /\ Fits(img.shape, cfg.padded_shape)
    /\ \E mode \in PadModes :
          /\ img' = ImageConfig_pad(cfg, img, mode)
          /\ ops' = Append(ops, "pad")
    /\ call' = NoCall
    /\ UNCHANGED <<cfg, x0, cloud_density, cloud_coordinates>>
    /\ UNCHANGED <<voxelvars, binvars>>

Crop ==
    /\ cfg # NoConfig /\ img # NoImage /\ Len(ops) < MaxOps
    /\ Fits(cfg.shape, img.shape)
    /\ img' = ImageConfig_crop(cfg, img)
    /\ ops' = Append(ops, "crop")
    /\ call' = NoCall
    /\ UNCHANGED <<cfg, x0, cloud_density, cloud_coordinates>>
    /\ UNCHANGED <<voxelvars, binvars>>

Downsample ==
    /\ cfg # NoConfig /\ img # NoImage /\ Len(ops) < MaxOps
    /\ Fits(cfg.shape, img.shape)
    /\ img' = ImageConfig_downsample(cfg, img)
    /\ ops' = Append(ops, "downsample")
    /\ call' = NoCall
    /\ UNCHANGED <<cfg, x0, cloud_density, cloud_coordinates>>
    /\ UNCHANGED <<voxelvars, binvars>>

Upsample ==
    /\ cfg # NoConfig /\ img # NoImage /\ Len(ops) < MaxOps
    /\ Fits(img.shape, cfg.padded_shape)
    /\ img' = ImageConfig_upsample(cfg, img)
    /\ ops' = Append(ops, "upsample")
    /\ call' = NoCall
    /\ UNCHANGED <<cfg, x0, cloud_density, cloud_coordinates>>
    /\ UNCHANGED <<voxelvars, binvars>>

\* ------------------------------------------------------------- scattering
\* point clouds: coordinates (x, y, z) and a box (Lx, Ly, Lz), one length unit
CloudPoints == {<<0, 0, 0>>, <<1, 0, 1>>, <<-1, -1, 2>>}
BoxSizes == {<<1, 1, 1>>, <<2, 2, 1>>}
DensityValues == {1, 2}
KwargSets == {{}, {"mode"}}

RECURSIVE SumSeq(_)
SumSeq(q) == IF q = <<>> THEN 0 ELSE Head(q) + SumSeq(Tail(q))

\* coordinates[:, :2] and box_size[:2]
FirstTwo(t) == <<t[1], t[2]>>
FirstTwoOfEach(coordinates) ==
    [j \in 1..Len(coordinates) |-> FirstTwo(coordinates[j])]

\* a point is inside the box when -L/2 <= x < L/2 on both axes
InsideBox(xy, box) ==
    /\ 2 * xy[1] >= -box[1] /\ 2 * xy[1] < box[1]
    /\ 2 * xy[2] >= -box[2] /\ 2 * xy[2] < box[2]

\* arrays of lengths n and m combine elementwise when equal or one is 1
Broadcastable(n, m) == n = m \/ n = 1 \/ m = 1
BroadcastLen(n, m) == IF n = 1 THEN m ELSE n
At(q, j) == IF Len(q) = 1 THEN q[1] ELSE q[j]

\* utils.bound(density, coords, box_size): the amplitudes, those of the
\* points outside the box set to zero; there is no length check of its own
\* beyond the array layer's broadcasting
bound(density, coords, box) ==
    IF ~Broadcastable(Len(density), Len(coords))
    THEN [err |-> "BroadcastError", value |-> <<>>]
    ELSE [err |-> "none",
          value |-> [j \in 1..BroadcastLen(Len(density), Len(coords)) |->
                        IF InsideBox(At(coords, j), box)
                        THEN At(density, j) ELSE 0]]

ZeroImage(space, shape) ==
    [space |-> space, shape |-> shape, px |-> [ij \in Indices(shape) |-> 0]]

\* utils.nufft(amplitudes, coords, box_size, shape, eps): the sum over the
\* points of amplitude times a unit-modulus phase, on the uniform grid of
\* `shape`; the model keeps the modulus of every term
nufft(amplitudes, coords, box, shape) ==
    IF Len(amplitudes) # Len(coords)
    THEN [err |-> "LengthError", value |-> NoImage]
    ELSE [err |-> "none",
          value |-> [space |-> "fourier", shape |-> shape,
                     px |-> [ij \in Indices(shape) |-> SumSeq(amplitudes)]]]

\* the integral over one pixel of a Gaussian of variance `scale` centred at
\* squared distance d2 from the pixel: positive everywhere, falling with d2
GaussWeight(d2, scale) ==
    IF d2 * scale.den <= scale.num THEN 4
    ELSE IF d2 * scale.den <= 4 * scale.num THEN 2 ELSE 1

Dist2(a, b) == (a[1] - b[1]) * (a[1] - b[1]) + (a[2] - b[2]) * (a[2] - b[2])

\* utils.integrate_gaussians(amplitudes, coords, scale, shape, pixel_size):
\* per pixel, the sum over the points of amplitude times the pixel integral
integrate_gaussians(amplitudes, coords, scale, shape, pixel_size) ==
    IF Len(amplitudes) # Len(coords)
    THEN [err |-> "LengthError", value |-> NoImage]
    ELSE LET centre == RealCoords(shape, pixel_size)
         IN  [err |-> "none",
              value |-> [space |-> "real", shape |-> shape,
                         px |-> [ij \in Indices(shape) |->
                             SumSeq([j \in 1..Len(coords) |->
                                 amplitudes[j] *
                                 GaussWeight(Dist2(centre[ij], coords[j]),
                                             scale)])]]]

\* utils.fft(image): the transform is linear and one-to-one, so a
\* Fourier-space array is represented by the real-space array it transforms
fft(image) == [image EXCEPT !.space = "fourier"]

Failed(stages, err) == [stages |-> stages, err |-> err, value |-> NoImage]
Returned(stages, value) == [stages |-> stages, err |-> "none", value |-> value]

project_with_nufft_unmasked(density, coordinates, box_size, shape) ==
    LET t == nufft(density, FirstTwoOfEach(coordinates), FirstTwo(box_size),
                   shape)
    IN  IF t.err # "none" THEN Failed(<<"nufft">>, t.err)
        ELSE Returned(<<"nufft">>, t.value)

project_with_nufft(density, coordinates, box_size, shape) ==
    LET masked == bound(density, FirstTwoOfEach(coordinates),
                        FirstTwo(box_size))
    IN  IF masked.err # "none" THEN Failed(<<"bound">>, masked.err)
        ELSE LET t == nufft(masked.value, FirstTwoOfEach(coordinates),
                            FirstTwo(box_size), shape)
             IN  IF t.err # "none" THEN Failed(<<"bound", "nufft">>, t.err)
                 ELSE Returned(<<"bound", "nufft">>, t.value)

project_with_gaussians(density, coordinates, box_size, shape, pixel_size, scale) ==
    LET masked == bound(density, FirstTwoOfEach(coordinates),
                        FirstTwo(box_size))
    IN  IF masked.err # "none" THEN Failed(<<"bound">>, masked.err)
        ELSE LET t == integrate_gaussians(masked.value,
                          FirstTwoOfEach(coordinates), scale, shape,
                          pixel_size)
             IN  IF t.err # "none"
                 THEN Failed(<<"bound", "integrate_gaussians">>, t.err)
                 ELSE Returned(<<"bound", "integrate_gaussians", "fft">>,
                               fft(t.value))

\* a scatter that rasterises onto the nominal shape instead
NufftScattering_scatter_nominal(self, density, coordinates, box_size) ==
    project_with_nufft(density, coordinates, box_size, self.shape)

\* NufftScattering.scatter(*args): project_with_nufft(*args, padded_shape)
NufftScattering_scatter(self, density, coordinates, box_size) ==
    project_with_nufft(density, coordinates, box_size, self.padded_shape)

\* GaussianScattering.scatter(*args): the Gaussian width is
\* pixel_size * scale, scale = 1/3 by default
GaussianScattering_scatter(self, density, coordinates, box_size) ==
    project_with_gaussians(density, coordinates, box_size, self.padded_shape,
                           self.pixel_size,
                           [num |-> self.pixel_size * self.scale.num,
                            den |-> self.scale.den])

\* the body that is commented out in the source: a projection is returned
FourierSliceScattering_scatter_sliced(self, args, kwargs) ==
    Returned(<<"project_with_slice", "resize">>,
             ZeroImage("fourier", self.padded_shape))

\* FourierSliceScattering.scatter(*args, **kwargs): raise NotImplementedError
FourierSliceScattering_scatter(self, args, kwargs) ==
    Failed(<<>>, "NotImplementedError")

\* the caller's view of a finished call: the arguments, what ran, the outcome
CallRecord(op, density, coordinates, box_size, r) ==
    [op |-> op, density |-> density, coordinates |-> coordinates,
     box_size |-> box_size, stages |-> r.stages, err |-> r.err]

\* the caller prepares the arrays of a point cloud, one entry at a time;
\* the two arrays need not end up equally long
AppendDensity ==
    /\ cfg # NoConfig /\ Len(cloud_density) < MaxPoints
    /\ \E v \in DensityValues : cloud_density' = Append(cloud_density, v)
    /\ img' = NoImage /\ x0' = NoImage /\ ops' = <<>> /\ call' = NoCall
    /\ UNCHANGED <<cfg, cloud_coordinates>>
    /\ UNCHANGED <<voxelvars, binvars>>

AppendPoint ==
    /\ cfg # NoConfig /\ Len(cloud_coordinates) < MaxPoints
    /\ \E p \in CloudPoints : cloud_coordinates' = Append(cloud_coordinates, p)
    /\ img' = NoImage /\ x0' = NoImage /\ ops' = <<>> /\ call' = NoCall
    /\ UNCHANGED <<cfg, cloud_density>>
    /\ UNCHANGED <<voxelvars, binvars>>

NufftScatter ==
    /\ cfg # NoConfig /\ cfg.kind = "NufftScattering"
    /\ \E box_size \in BoxSizes :
          LET r == NufftScattering_scatter(cfg, cloud_density, cloud_coordinates, box_size)
          IN  /\ call' = CallRecord("NufftScattering.scatter", cloud_density,
                                    cloud_coordinates, box_size, r)
              /\ img' = r.value
    /\ x0' = NoImage
    /\ ops' = <<"scatter">>
    /\ UNCHANGED <<cfg, cloud_density, cloud_coordinates>>
    /\ UNCHANGED <<voxelvars, binvars>>

GaussianScatter ==
    /\ cfg # NoConfig /\ cfg.kind = "GaussianScattering"
    /\ \E box_size \in BoxSizes :
          LET r == GaussianScattering_scatter(cfg, cloud_density, cloud_coordinates,
                                              box_size)
          IN  /\ call' = CallRecord("GaussianScattering.scatter", cloud_density,
                                    cloud_coordinates, box_size, r)
              /\ img' = r.value
    /\ x0' = NoImage
    /\ ops' = <<"scatter">>
    /\ UNCHANGED <<cfg, cloud_density, cloud_coordinates>>
    /\ UNCHANGED <<voxelvars, binvars>>

\* no positional arguments or all three, with or without keyword arguments
FourierSliceScatter ==
    /\ cfg # NoConfig /\ cfg.kind = "FourierSliceScattering"
    /\ \E box_size \in BoxSizes, nargs \in {0, 3}, kwargs \in KwargSets :
          LET args == SubSeq(<<cloud_density, cloud_coordinates, box_size>>, 1, nargs)
              r == FourierSliceScattering_scatter(cfg, args, kwargs)
          IN  /\ call' = [op |-> "FourierSliceScattering.scatter",
                          args |-> args, kwargs |-> kwargs,
                          stages |-> r.stages, err |-> r.err]
              /\ img' = r.value
    /\ x0' = NoImage
    /\ ops' = <<"scatter">>
    /\ UNCHANGED <<cfg, cloud_density, cloud_coordinates>>
    /\ UNCHANGED <<voxelvars, binvars>>

Next ==
    \/ Construct \/ NewImage
    \/ Pad \/ Crop \/ Downsample \/ Upsample
    \/ AppendDensity \/ AppendPoint
    \/ NufftScatter \/ GaussianScatter \/ FourierSliceScatter

Spec == Init /\ [][Next]_vars
\* ------------------------------------------------------------- voxel grids
\* Lengths are in voxels.  A grid of side n holds the voxels (i, j, k),
\* 0 <= i, j, k < n, voxel (i, j, k) at the centred coordinate
\* (i - n \div 2, j - n \div 2, k - n \div 2); atoms sit on voxel centres.
GridSides == 2..MaxGridSide
Voxels(n) == (0..(n - 1)) \X (0..(n - 1)) \X (0..(n - 1))

\* CoordinateGrid(n_voxels_per_side, voxel_size).get()
CoordinateGrid(n) ==
    [n |-> n,
     coords |-> [v \in Voxels(n) |->
                    <<v[1] - n \div 2, v[2] - n \div 2, v[3] - n \div 2>>]]

\* the positions an atom is placed at: the corner-most and the centre
\* coordinate on each axis
AtomSites(n) == {-(n \div 2), 0} \X {-(n \div 2), 0} \X {-(n \div 2), 0}

\* the scattering table: per element, the amplitudes a_k and widths b_k of
\* its Gaussians (two per element here); width 4 is four times width 1
FormFactorTable ==
    [e \in {1, 2, 3} |->
        CASE e = 1 -> [a |-> <<1, 1>>, b |-> <<4, 4>>]
          [] e = 2 -> [a |-> <<1, 1>>, b |-> <<1, 1>>]
          [] e = 3 -> [a |-> <<2, 1>>, b |-> <<4, 1>>]]
Elements == DOMAIN FormFactorTable

RECURSIVE Pow2(_)
Pow2(e) == IF e = 0 THEN 1 ELSE 2 * Pow2(e - 1)

\* (4 pi / b)^(3/2) * exp(-4 pi^2 d2 / b) in fixed point, for b in {1, 4} and
\* a voxel size at which exp(-4 pi^2 / 4) is 1/2: the peak of width 1 is
\* 8 times that of width 4 and its decay per unit of d2 is the fourth power;
\* values below one unit are cut to 0
GaussianTerm(b, d2) ==
    LET peak == IF b = 1 THEN 512 ELSE 64
        halvings == d2 * (4 \div b)
    IN  IF halvings > 9 THEN 0 ELSE peak \div Pow2(halvings)

Dist3(r, q) ==
    (r[1] - q[1]) * (r[1] - q[1]) + (r[2] - q[2]) * (r[2] - q[2])
        + (r[3] - q[3]) * (r[3] - q[3])

\* one atom's density at r: sum over k of a_k * (4 pi / b_k)^(3/2)
\* * exp(-4 pi^2 |r - pos|^2 / b_k)
AtomDensity(pos, a, b, r) ==
    SumSeq([k \in 1..Len(a) |-> a[k] * GaussianTerm(b[k], Dist3(r, pos))])

\* build_real_space_voxels_from_atoms(atom_positions, ff_a, ff_b, coords):
\* at every grid point, the sum of the atoms' densities
build_real_space_voxels_from_atoms(atom_positions, ff_a, ff_b, grid) ==
    [n |-> grid.n,
     vox |-> [v \in Voxels(grid.n) |->
                 SumSeq([i \in 1..Len(atom_positions) |->
                     AtomDensity(atom_positions[i], ff_a[i], ff_b[i],
                                 grid.coords[v])])]]

Positions(as) == [i \in 1..Len(as) |-> as[i].position]
ElementsOf(as) == [i \in 1..Len(as) |-> as[i].element]

\* RealVoxelGridPotential.from_atoms(positions, elements, voxel_size, grid):
\* the table's coefficients for each element, then the builder
RealVoxelGridPotential_from_atoms(atom_positions, atom_elements, grid) ==
    build_real_space_voxels_from_atoms(
        atom_positions,
        [i \in 1..Len(atom_elements) |-> FormFactorTable[atom_elements[i]].a],
        [i \in 1..Len(atom_elements) |-> FormFactorTable[atom_elements[i]].b],
        grid)

\* The discrete Fourier transform is computed exactly, in the field of
\* integers modulo the prime FieldModulus: FieldModulus - 1 is a multiple
\* of every grid side, so the field has a primitive n-th root of unity for
\* each, and the transform's inversion and shift identities are those of
\* the complex one.  Grid values stay below FieldModulus.
FieldModulus == 15 * 512 + 1

\* w^e modulo FieldModulus, by repeated squaring
RECURSIVE PowMod(_, _)
PowMod(w, e) ==
    IF e = 0 THEN 1
    ELSE LET h == PowMod(w, e \div 2)
             hh == (h * h) % FieldModulus
         IN  IF e % 2 = 1 THEN (hh * w) % FieldModulus ELSE hh

\* 17 generates the field's multiplicative group, so its power
\* (FieldModulus - 1) / n is a primitive n-th root of unity
Generator == 16 + 1
RootOfUnity(n) == PowMod(Generator, (FieldModulus - 1) \div n)

\* 1 / m in the field (Fermat)
InverseMod(m) == PowMod(m, FieldModulus - 2)

\* flat (row-major) index of a voxel and back
FlatIndex(n, v) == (v[1] * n + v[2]) * n + v[3]
Unravel(n, f) == <<f \div (n * n), (f \div n) % n, f % n>>

\* sum over the voxels u (flat indices 0..f) of x[u] * w^(u . v), modulo
\* FieldModulus; pw[e] is w^e
RECURSIVE DftSum(_, _, _, _, _)
DftSum(x, pw, n, v, f) ==
    IF f < 0 THEN 0
    ELSE LET u == Unravel(n, f)
         IN  (x[u] * pw[(u[1] * v[1] + u[2] * v[2] + u[3] * v[3]) % n]
                 + DftSum(x, pw, n, v, f - 1)) % FieldModulus

Powers(w, n) == [e \in 0..(n - 1) |-> PowMod(w, e)]

\* the array itself, computed in full before it is indexed
Evaluated(f) == IF f = <<>> THEN <<>> ELSE f

\* fftn(grid): the forward transform, with the root's inverse as its kernel
fftn(g) ==
    LET pw == Evaluated(Powers(PowMod(RootOfUnity(g.n), g.n - 1), g.n))
        x == Evaluated(g.vox)
    IN  [n |-> g.n,
         vox |-> [v \in Voxels(g.n) |->
                     DftSum(x, pw, g.n, v, g.n * g.n * g.n - 1)]]

\* ifftn(grid): the inverse transform, divided by the number of voxels
ifftn(g) ==
    LET pw == Evaluated(Powers(RootOfUnity(g.n), g.n))
        x == Evaluated(g.vox)
        scale == InverseMod(g.n * g.n * g.n)
    IN  [n |-> g.n,
         vox |-> [v \in Voxels(g.n) |->
                     (scale * DftSum(x, pw, g.n, v, g.n * g.n * g.n - 1))
                         % FieldModulus]]

\* jnp.fft.fftshift: every axis rolled forward by n // 2
fftshift(g) ==
    LET back(i) == (i + g.n - g.n \div 2) % g.n
    IN  [n |-> g.n,
         vox |-> [v \in Voxels(g.n) |->
                     g.vox[<<back(v[1]), back(v[2]), back(v[3])>>]]]

\* jnp.fft.ifftshift: every axis rolled back by n // 2
ifftshift(g) ==
    LET fwd(i) == (i + g.n \div 2) % g.n
    IN  [n |-> g.n,
         vox |-> [v \in Voxels(g.n) |->
                     g.vox[<<fwd(v[1]), fwd(v[2]), fwd(v[3])>>]]]

\* FourierVoxelGridPotential.from_real_voxel_grid: the transform of the
\* real grid, stored with the zero frequency in the centre
FourierVoxelGridPotential_from_real_voxel_grid(real_voxel_grid) ==
    fftshift(fftn(real_voxel_grid))

\* FourierVoxelGridPotential.from_atoms: the builder, then the transform
FourierVoxelGridPotential_from_atoms(atom_positions, atom_elements, grid) ==
    FourierVoxelGridPotential_from_real_voxel_grid(
        RealVoxelGridPotential_from_atoms(atom_positions, atom_elements, grid))

\* test_VoxelGrid_agreement's fvg_real, with fftshift in place of ifftshift
fvg_real_fftshift == ifftn(fftshift(fourier_potential))

\* fvg_real = ifftn(jnp.fft.ifftshift(fourier_voxel_grid)).real; the exact
\* transform of a real grid has no imaginary part to drop
fvg_real == ifftn(ifftshift(fourier_potential))

\* ff_a.at[largest_atom].add(1.0): every amplitude of that atom raised by 1
\* (largest_atom counts from 0)
BoostedAmplitudes(ff_a, largest_atom) ==
    [i \in 1..Len(ff_a) |->
        IF i = largest_atom + 1
        THEN [k \in 1..Len(ff_a[i]) |-> ff_a[i][k] + 1]
        ELSE ff_a[i]]

\* the toy cloud's coefficient arrays
ToyA == [i \in 1..Len(atoms) |-> FormFactorTable[atoms[i].element].a]
ToyB == [i \in 1..Len(atoms) |-> FormFactorTable[atoms[i].element].b]

\* the flat index unravelled with the axes in reverse order
UnravelReversed(n, f) == <<f % n, (f \div n) % n, f \div (n * n)>>

\* jnp.argmax(real_voxel_grid): the first flat index holding the maximum
maximum_index ==
    LET n == toy.grid.n
        IsMax(v) == \A u \in Voxels(n) : toy.grid.vox[u] <= toy.grid.vox[v]
    IN  CHOOSE f \in 0..(n * n * n - 1) :
            /\ IsMax(Unravel(n, f))
            /\ \A h \in 0..(f - 1) : ~IsMax(Unravel(n, h))

\* the position read with the axes of the flat index in reverse order
maximum_position_reversed ==
    coordinate_grid.coords[UnravelReversed(coordinate_grid.n, maximum_index)]

\* maximum_position = coordinate_grid.get().reshape(-1, 3)[maximum_index]
maximum_position ==
    coordinate_grid.coords[Unravel(coordinate_grid.n, maximum_index)]

NewGrid ==
    /\ coordinate_grid = NoGrid
    /\ \E n \in GridSides : coordinate_grid' = CoordinateGrid(n)
    /\ UNCHANGED <<atoms, real_potential, fourier_potential, toy>>
    /\ UNCHANGED <<imagevars, binvars>>

\* one more atom is loaded; grids built from the shorter set are dropped
AddAtom ==
    /\ coordinate_grid # NoGrid /\ Len(atoms) < MaxAtoms
    /\ \E pos \in AtomSites(coordinate_grid.n), e \in Elements :
          atoms' = Append(atoms, [position |-> pos, element |-> e])
    /\ real_potential' = NoGrid /\ fourier_potential' = NoGrid /\ toy' = NoToy
    /\ UNCHANGED coordinate_grid
    /\ UNCHANGED <<imagevars, binvars>>

RealFromAtoms ==
    /\ coordinate_grid # NoGrid /\ real_potential = NoGrid
    /\ real_potential' = RealVoxelGridPotential_from_atoms(
                             Positions(atoms), ElementsOf(atoms),
                             coordinate_grid)
    /\ toy' = NoToy
    /\ UNCHANGED <<coordinate_grid, atoms, fourier_potential>>
    /\ UNCHANGED <<imagevars, binvars>>

FourierFromAtoms ==
    /\ coordinate_grid # NoGrid /\ fourier_potential = NoGrid
    /\ fourier_potential' = FourierVoxelGridPotential_from_atoms(
                                Positions(atoms), ElementsOf(atoms),
                                coordinate_grid)
    /\ toy' = NoToy
    /\ UNCHANGED <<coordinate_grid, atoms, real_potential>>
    /\ UNCHANGED <<imagevars, binvars>>

\* test_maxima_are_in_right_positions: boost one atom, build the grid
BuildBoosted ==
    /\ coordinate_grid # NoGrid /\ toy = NoToy
    /\ \E largest_atom \in 0..(Len(atoms) - 1) :
          LET ff_a == BoostedAmplitudes(ToyA, largest_atom)
          IN  toy' = [largest_atom |-> largest_atom, ff_a |-> ff_a,
                      grid |-> build_real_space_voxels_from_atoms(
                                   Positions(atoms), ff_a, ToyB,
                                   coordinate_grid)]
    /\ real_potential' = NoGrid /\ fourier_potential' = NoGrid
    /\ UNCHANGED <<coordinate_grid, atoms>>
    /\ UNCHANGED <<imagevars, binvars>>

NextVoxel ==
    \/ NewGrid \/ AddAtom
    \/ RealFromAtoms \/ FourierFromAtoms \/ BuildBoosted

SpecVoxel == Init /\ [][NextVoxel]_vars

\* ------------------------------------------------------------- binning
\* Coordinates are floats that are whole or half pixels, held as twice
\* their value; the integer type has IntBits bits, two's complement.
IntMin == -(2 ^ (IntBits - 1))
IntMax == 2 ^ (IntBits - 1) - 1

\* an integer result reduced to the integer type
WrapInt(v) == ((v - IntMin) % (2 ^ IntBits)) + IntMin

\* jnp.rint of the float whose double is c2: the nearest whole number, a
\* tie going to the even one
rint(c2) ==
    LET q == c2 \div 2
    IN  IF c2 % 2 = 0 THEN q
        ELSE IF q % 2 = 0 THEN q ELSE q + 1

\* .astype(int) of a whole-valued float
astype_int(v) == WrapInt(v)

\* jnp.ravel_multi_index((x, y), (N1, N2), mode="clip")
ravel_multi_index(x_coords, y_coords, N1, N2) ==
    [i \in 1..Len(x_coords) |->
        Clamp(x_coords[i], 0, N1 - 1) * N2 + Clamp(y_coords[i], 0, N2 - 1)]

\* jnp.ravel_multi_index((x, y), (N1, N2)) with no clipping of the indices
ravel_multi_index_unclipped(x_coords, y_coords, N1, N2) ==
    [i \in 1..Len(x_coords) |-> WrapInt(x_coords[i] * N2 + y_coords[i])]

\* jnp.bincount(x, weights=weights, length=length): the weights of equal
\* entries of x summed; a negative entry counts as 0, an entry >= length is
\* left out; x and weights must have one shape
bincount(x, weights, length) ==
    IF Len(x) # Len(weights) THEN [err |-> "ValueError", value |-> <<>>]
    ELSE [err |-> "none",
          value |-> [f \in 0..(length - 1) |->
              SumSeq([i \in 1..Len(x) |->
                  IF (IF x[i] < 0 THEN 0 ELSE x[i]) = f
                  THEN weights[i] ELSE 0])]]

\* .reshape((N1, N2)) of a flat array, row-major
reshape(flat, shape) ==
    [space |-> "real", shape |-> shape,
     px |-> [ij \in Indices(shape) |-> flat[ij[1] * shape[2] + ij[2]]]]

BinShift(coords, axis, n) ==
    [i \in 1..Len(coords) |-> WrapInt(astype_int(rint(coords[i][axis])) + n \div 2)]

\* project_with_binning without mode="clip"
project_with_binning_unclipped(density, coords, shape) ==
    LET N1 == shape[1]
        N2 == shape[2]
        flat_coords == ravel_multi_index_unclipped(BinShift(coords, 1, N1),
                           BinShift(coords, 2, N2), N1, N2)
        counted == bincount(flat_coords, density, N1 * N2)
    IN  IF counted.err # "none"
        THEN Failed(<<"rint", "ravel_multi_index", "bincount">>, counted.err)
        ELSE Returned(<<"rint", "ravel_multi_index", "bincount">>,
                      reshape(counted.value, shape))

project_with_binning(density, coords, shape) ==
    LET N1 == shape[1]
        N2 == shape[2]
        flat_coords == ravel_multi_index(BinShift(coords, 1, N1),
                           BinShift(coords, 2, N2), N1, N2)
        counted == bincount(flat_coords, density, N1 * N2)
    IN  IF counted.err # "none"
        THEN Failed(<<"rint", "ravel_multi_index", "bincount">>, counted.err)
        ELSE Returned(<<"rint", "ravel_multi_index", "bincount">>,
                      reshape(counted.value, shape))

\* doubled coordinates (x, y, z): whole and half pixels of either sign, ties
\* below an even and below an odd whole number, and the two ends of the
\* integer type
BinPoints ==
    {<<0, 0, 0>>, <<1, -1, 2>>, <<3, -3, 0>>, <<5, 2, 1>>, <<-2, 6, 0>>,
     <<-5, 1, 0>>, <<2 * IntMax, 0, 0>>, <<0, 2 * IntMin, 0>>}
BinShapes == {<<1, 1>>, <<2, 3>>, <<3, 2>>, <<4, 4>>}

AppendBinDensity ==
    /\ Len(bin_density) < MaxBinPoints
    /\ \E v \in DensityValues : bin_density' = Append(bin_density, v)
    /\ bin_call' = NoCall
    /\ UNCHANGED bin_coords
    /\ UNCHANGED <<imagevars, voxelvars>>

AppendBinCoords ==
    /\ Len(bin_coords) < MaxBinPoints
    /\ \E p \in BinPoints : bin_coords' = Append(bin_coords, p)
    /\ bin_call' = NoCall
    /\ UNCHANGED bin_density
    /\ UNCHANGED <<imagevars, voxelvars>>

ProjectWithBinning ==
    /\ \E shape \in BinShapes :
          LET r == project_with_binning(bin_density, bin_coords, shape)
          IN  bin_call' = [op |-> "project_with_binning", shape |-> shape,
                           stages |-> r.stages, err |-> r.err,
                           projection |-> r.value]
    /\ UNCHANGED <<bin_density, bin_coords>>
    /\ UNCHANGED <<imagevars, voxelvars>>

NextBinning == AppendBinDensity \/ AppendBinCoords \/ ProjectWithBinning

SpecBinning == Init /\ [][NextBinning]_vars

\* ------------------------------------------------------------- properties
Constructed == cfg # NoConfig
PadScaleAtLeastOne == cfg.pad_scale.num >= cfg.pad_scale.den
Axes == {1, 2}
\* twice the fractional part of shape[i] * pad_scale, over pad_scale.den
TwiceFraction(i) == 2 * ((cfg.shape[i] * cfg.pad_scale.num) % cfg.pad_scale.den)

\* C1 as stated: with pad_scale >= 1, every component of padded_shape is
\* round(shape[i] * pad_scale), also where the fractional part is 0.5 or more.
C1_PaddedShapeIsRounded ==
    (Constructed /\ PadScaleAtLeastOne) =>
        \A i \in Axes :
            cfg.padded_shape[i] = RoundOfProduct(cfg.shape[i], cfg.pad_scale)

\* C1 amended: with pad_scale >= 1, every component of padded_shape is the
\* product shape[i] * pad_scale truncated to an integer (its floor), so it is
\* the rounded product only where the fractional part is below 0.5, or is
\* exactly 0.5 over an even integer part.
C1_PaddedShapeIsTruncated ==
    (Constructed /\ PadScaleAtLeastOne) =>
        \A i \in Axes :
            LET q == cfg.padded_shape[i]
                n == cfg.shape[i] * cfg.pad_scale.num
                d == cfg.pad_scale.den
            IN  /\ q * d <= n /\ n < (q + 1) * d
                /\ (q = RoundOfProduct(cfg.shape[i], cfg.pad_scale)) <=>
                      (TwiceFraction(i) < d \/ (TwiceFraction(i) = d /\ q % 2 = 0))

C1_Witness ==
    /\ Constructed /\ PadScaleAtLeastOne
    /\ \E i \in Axes :
          /\ TwiceFraction(i) > cfg.pad_scale.den
          /\ cfg.padded_shape[i] * cfg.pad_scale.den
                 < cfg.shape[i] * cfg.pad_scale.num
          /\ cfg.padded_shape[i] + 1 = RoundOfProduct(cfg.shape[i], cfg.pad_scale)

\* C2 as stated: no configuration with pad_scale < 1 (and so with a padded
\* shape smaller than the shape) is ever returned by construction.
C2_PadScaleBelowOneRejected ==
    Constructed => (PadScaleAtLeastOne /\ Fits(cfg.shape, cfg.padded_shape))

\* C3: a FourierSliceScattering.scatter call, whatever its arguments and
\* configuration, ends in NotImplementedError: nothing ran, nothing returned.
C3_FourierSliceNotImplemented ==
    (call.op = "FourierSliceScattering.scatter") =>
        (call.err = "NotImplementedError" /\ call.stages = <<>> /\ img = NoImage)

C3_Witness ==
    /\ call.op = "FourierSliceScattering.scatter"
    /\ Len(call.args) = 3 /\ call.args[1] # <<>> /\ call.kwargs # {}
    /\ cfg.order = 0 /\ cfg.padded_shape # cfg.shape
    /\ call.err = "NotImplementedError"

IsProjectionCall ==
    call.op \in {"NufftScattering.scatter", "GaussianScattering.scatter"}

\* C4 as stated: a projection call whose density and coordinates differ in
\* length fails with ShapeMismatch at its entry: no stage has run and
\* nothing is returned.
C4_ShapeMismatchAtEntry ==
    (IsProjectionCall /\ Len(call.density) # Len(call.coordinates)) =>
        (call.err = "ShapeMismatch" /\ call.stages = <<>> /\ img = NoImage)

C6_ConfigImmutable == [][Constructed => cfg' = cfg]_vars

C6_Witness ==
    /\ Constructed /\ Len(ops) = 2 /\ ops[1] = "scatter"
    /\ img # NoImage /\ cfg.padded_shape # cfg.shape
    /\ cfg = PostInit(cfg.kind, cfg.shape, cfg.pixel_size, cfg.pad_scale,
                      cfg.order)

AllPointsOutside ==
    \A j \in 1..Len(call.coordinates) :
        ~InsideBox(FirstTwo(call.coordinates[j]), FirstTwo(call.box_size))

\* C7: a NUFFT or Gaussian projection call on a cloud (one amplitude per
\* point) whose points all lie outside the box returns normally, and every
\* pixel of the projection is zero.
C7_OutsideCloudGivesZero ==
    (IsProjectionCall /\ Len(call.density) = Len(call.coordinates)
        /\ AllPointsOutside) =>
        /\ call.err = "none"
        /\ img # NoImage
        /\ img.shape = cfg.padded_shape
        /\ \A ij \in Indices(img.shape) : img.px[ij] = 0

C7_Witness ==
    /\ call.op = "GaussianScattering.scatter"
    /\ Len(call.density) = 2 /\ Len(call.coordinates) = 2
    /\ AllPointsOutside
    /\ call.stages = <<"bound", "integrate_gaussians", "fft">>
    /\ NonEmpty(img.shape)
    /\ \A ij \in Indices(img.shape) : img.px[ij] = 0
BothBuilt == real_potential # NoGrid /\ fourier_potential # NoGrid

ToyBuilt == toy # NoToy
Boosted == toy.largest_atom + 1

\* every amplitude of the boosted atom exceeds that amplitude of every other
Dominates ==
    \A i \in 1..Len(atoms) : i # Boosted =>
        \A k \in 1..Len(toy.ff_a[i]) : toy.ff_a[Boosted][k] > toy.ff_a[i][k]

\* the boosted atom's own density at r
OwnDensity(r) ==
    AtomDensity(atoms[Boosted].position, toy.ff_a[Boosted], ToyB[Boosted], r)

\* the sum of the other atoms' peak densities (each at its own position)
OthersPeak ==
    SumSeq([i \in 1..Len(atoms) |->
        IF i = Boosted THEN 0
        ELSE AtomDensity(atoms[i].position, toy.ff_a[i], ToyB[i],
                         atoms[i].position)])

\* the boosted atom's own density falls, from its position to any other
\* grid point, by more than all the other atoms can add
ClearMargin ==
    \A v \in Voxels(coordinate_grid.n) :
        coordinate_grid.coords[v] # atoms[Boosted].position =>
            OwnDensity(atoms[Boosted].position)
                - OwnDensity(coordinate_grid.coords[v]) > OthersPeak

Binned == bin_call # NoCall /\ bin_call.err = "none"

\* the whole number nearest to the float whose double is c2, the even one
\* of the two when c2 is midway
NearestEven(c2) ==
    CHOOSE k \in (c2 \div 2)..(c2 \div 2 + 1) :
        /\ \A j \in (c2 \div 2)..(c2 \div 2 + 1) :
              (2 * k - c2) * (2 * k - c2) <= (2 * j - c2) * (2 * j - c2)
        /\ (2 * k # c2) => ((2 * k - c2) * (2 * k - c2) < 1 \/ k % 2 = 0)

\* the index of point i along an axis of n pixels: rounded, shifted by n // 2
\* in the integer type, then clipped to 0..n-1
TargetIndex(i, axis, n) ==
    Clamp(WrapInt(NearestEven(bin_coords[i][axis]) + n \div 2), 0, n - 1)

TargetPixel(i) ==
    <<TargetIndex(i, 1, bin_call.shape[1]), TargetIndex(i, 2, bin_call.shape[2])>>

PixelSum(image) ==
    LET RECURSIVE Over(_)
        Over(S) == IF S = {} THEN 0
                   ELSE LET ij == CHOOSE e \in S : TRUE
                        IN  image.px[ij] + Over(S \ {ij})
    IN  Over(Indices(image.shape))

ScatterReturned == call # NoCall /\ call.err = "none"
ReducedAfterScatter ==
    /\ Len(ops) = 2 /\ ops[1] = "scatter"
    /\ ops[2] \in {"downsample", "crop"}

====
